---- MODULE Spec2Model ----
(***************************************************************************)
(* Model of ssq (src/src/lib.rs): a single-producer, single-consumer,      *)
(* single-slot queue.  One Producer context and one Consumer context run   *)
(* concurrently; every atomic access of lib.rs (load, store, swap) is one  *)
(* step, and the plain ptr::write / ptr::read of the slot take two steps   *)
(* each (the slot is two words wide), so that an unsynchronised overlap of *)
(* a write and a read shows as a torn value.                               *)
(***************************************************************************)
EXTENDS Naturals, Sequences, FiniteSets

\* ---- bounds ----
MaxProd == 3        \* producer calls per run (soundness.rs loops 500 times)
MaxCons == 3        \* consumer calls per run
MaxVal == 2         \* payloads are 1..MaxVal
FairProd == 2       \* producer calls per round in the runs with fairness
FairCons == 2       \* consumer calls per round in the runs with fairness
FairVal == 1        \* payloads in the runs with fairness are 1..FairVal
LoopCalls == 1      \* calls per round and side in the runs that never end

Values == 1..MaxVal

\* ---- values ----
\* A word of the slot: <<id, v>>, v the payload given by the caller and id
\* the number of the producer call that supplied it (object identity).
Uninit == <<0, 0>>                  \* MaybeUninit::uninit(): no value
Obj(t) == <<t, t>>                  \* a T in memory: both words of the same value
NoObj == Obj(Uninit)
IsValue(o) == o[1] = o[2] /\ o[1] # Uninit   \* completely written, by one write

\* Option<T> and the other return values
None == <<"None">>
Some(o) == <<"Some", o>>
Unit == <<"Unit">>
Bool(b) == <<"Bool", b>>
Ret(op, res) == [op |-> op, res |-> res]

\* ---- history (ghost) records ----
NoDone == <<"none", Uninit>>
ClearExp == [done |-> NoDone, peek |-> NoObj, empty |-> FALSE, ie |-> "none"]

VARIABLES
    full,       \* SingleSlotQueue.full
    locked,     \* SingleSlotQueue.writing.0
    val,        \* SingleSlotQueue.val: <<word 1, word 2>>
    guards,     \* contexts that own a live LightGuard
    alive,      \* FALSE once the queue has been dropped
    ppc,        \* producer's position
    parg,       \* producer's argument `val`
    pret,       \* producer's last return
    pn,         \* producer calls made
    cpc,        \* consumer's position
    cbuf,       \* consumer's local `r` being filled by ptr::read
    cret,       \* consumer's last return
    cn,         \* consumer calls made
    delivered,  \* history: values returned by dequeue, in order
    dropped,    \* history: values dropped by Drop for SingleSlotQueue
    accepted,   \* history: values the queue took ownership of
    owOld,      \* history: what the last enqueue_overwrite found in the slot
    last,       \* history: what the next consumer read has to see
    cexp        \* history: `last` as it was when the consumer's call began

pvars == <<ppc, parg, pret, pn>>
cvars == <<cpc, cbuf, cret, cn>>
qvars == <<full, locked, val, guards, alive>>
gvars == <<delivered, dropped, accepted, owOld, last, cexp>>
vars == <<full, locked, val, guards, alive, ppc, parg, pret, pn,
          cpc, cbuf, cret, cn, delivered, dropped, accepted, owOld, last, cexp>>

OwPcs == {"ow_lock", "ow_clear", "ow_w1", "ow_w2", "ow_store", "ow_unlock"}
DeqPcs == {"deq_load", "deq_lock", "deq_r1", "deq_r2", "deq_clear", "deq_unlock"}
PeekPcs == {"peek_load", "peek_lock", "peek_r1", "peek_r2", "peek_unlock"}
\* the producer is inside a call that writes the slot
PWriteActive == ppc \in {"enq_w1", "enq_w2", "enq_store"} \cup OwPcs

\* history: a write call returns; the next dequeue has to return its value,
\* which dequeue that is being settled only when none is in progress
DoneAt(kind) == IF cpc \in DeqPcs THEN NoDone ELSE <<kind, parg>>
\* history: is_empty returns b; it tells what the next dequeue finds only
\* when the other side (at otherpc) has no call in progress
IsEmptyAt(b, otherpc) ==
    IF otherpc # "idle" THEN "none" ELSE IF b THEN "true" ELSE "false"

\* ---- construction ----
Init ==
    /\ full = FALSE
    /\ locked = FALSE
    /\ val = NoObj
    /\ guards = {}
    /\ alive = TRUE
    /\ ppc = "idle" /\ parg = Uninit /\ pret = Ret("none", None) /\ pn = 0
    /\ cpc = "idle" /\ cbuf = NoObj /\ cret = Ret("none", None) /\ cn = 0
    /\ delivered = <<>> /\ dropped = <<>> /\ accepted = {}
    /\ owOld = NoObj /\ last = ClearExp /\ cexp = ClearExp

\* ---- LightLock ----
\* try_lock handing out a guard without looking at the old flag
try_lock_Always(ctx) ==
    /\ locked' = TRUE
    /\ guards' = guards \cup {ctx}

\* swap(true): a guard is made only when the flag was false
try_lock(ctx) ==
    /\ locked' = TRUE
    /\ guards' = IF locked THEN guards ELSE guards \cup {ctx}

\* a guard that goes away without unlocking
GuardDrop_Leak(ctx) ==
    /\ locked' = locked
    /\ guards' = guards \ {ctx}

\* Drop for LightGuard
GuardDrop(ctx) ==
    /\ locked' = FALSE
    /\ guards' = guards \ {ctx}

\* ---- Producer::enqueue ----
PCallEnqueue(v) ==
    /\ alive /\ ppc = "idle" /\ pn < MaxProd
    /\ ppc' = "enq_load"
    /\ parg' = <<pn + 1, v>>
    /\ pn' = pn + 1
    /\ UNCHANGED <<pret, qvars, cvars, gvars>>

\* enqueue waiting for the writing lock to be free before it looks at the flag
EnqLoad_Locking ==
    /\ ppc = "enq_load"
    /\ ~locked
    /\ IF ~full
       THEN /\ ppc' = "enq_w1"
            /\ pret' = pret
            /\ last' = ClearExp /\ cexp' = ClearExp
       ELSE /\ ppc' = "idle"
            /\ pret' = Ret("enqueue", Some(Obj(parg)))
            /\ UNCHANGED <<last, cexp>>
    /\ UNCHANGED <<parg, pn, qvars, cvars, delivered, dropped, accepted, owOld>>

\* enqueue writing without looking at the flag
EnqLoad_NoCheck ==
    /\ ppc = "enq_load"
    /\ ppc' = "enq_w1"
    /\ pret' = pret
    /\ last' = ClearExp /\ cexp' = ClearExp
    /\ UNCHANGED <<parg, pn, qvars, cvars, delivered, dropped, accepted, owOld>>

\* if !full.load(Acquire) { .. } else { Some(val) }
EnqLoad ==
    /\ ppc = "enq_load"
    /\ IF ~full
       THEN /\ ppc' = "enq_w1"
            /\ pret' = pret
            /\ last' = ClearExp /\ cexp' = ClearExp
       ELSE /\ ppc' = "idle"
            /\ pret' = Ret("enqueue", Some(Obj(parg)))
            /\ UNCHANGED <<last, cexp>>
    /\ UNCHANGED <<parg, pn, qvars, cvars, delivered, dropped, accepted, owOld>>

\* ptr::write(val.get().cast(), val), first word
EnqW1 ==
    /\ ppc = "enq_w1"
    /\ val' = <<parg, val[2]>>
    /\ ppc' = "enq_w2"
    /\ UNCHANGED <<full, locked, guards, alive, parg, pret, pn, cvars, gvars>>

\* ptr::write stopping after the first word
EnqW2_Skip ==
    /\ ppc = "enq_w2"
    /\ val' = val
    /\ ppc' = "enq_store"
    /\ UNCHANGED <<full, locked, guards, alive, parg, pret, pn, cvars, gvars>>

\* ptr::write, second word
EnqW2 ==
    /\ ppc = "enq_w2"
    /\ val' = <<val[1], parg>>
    /\ ppc' = "enq_store"
    /\ UNCHANGED <<full, locked, guards, alive, parg, pret, pn, cvars, gvars>>

\* enqueue writing the value and forgetting to raise the flag
EnqStore_NoFlag ==
    /\ ppc = "enq_store"
    /\ full' = full
    /\ ppc' = "idle"
    /\ pret' = Ret("enqueue", None)
    /\ accepted' = accepted \cup {parg}
    /\ last' = [last EXCEPT !.done = DoneAt("enqueue")]
    /\ UNCHANGED <<locked, val, guards, alive, parg, pn, cvars,
                   delivered, dropped, owOld, cexp>>

\* full.store(true, Release); None
EnqStore ==
    /\ ppc = "enq_store"
    /\ full' = TRUE
    /\ ppc' = "idle"
    /\ pret' = Ret("enqueue", None)
    /\ accepted' = accepted \cup {parg}
    /\ last' = [last EXCEPT !.done = DoneAt("enqueue")]
    /\ UNCHANGED <<locked, val, guards, alive, parg, pn, cvars,
                   delivered, dropped, owOld, cexp>>

\* ---- Producer::enqueue_overwrite ----
PCallOverwrite(v) ==
    /\ alive /\ ppc = "idle" /\ pn < MaxProd
    /\ ppc' = "ow_lock"
    /\ parg' = <<pn + 1, v>>
    /\ pn' = pn + 1
    /\ last' = ClearExp /\ cexp' = ClearExp
    /\ UNCHANGED <<pret, qvars, cvars, delivered, dropped, accepted, owOld>>

\* enqueue_overwrite going ahead whether or not the lock was free
OwLock_NoWait ==
    /\ ppc = "ow_lock"
    /\ locked' = TRUE
    /\ guards' = guards \cup {"prod"}
    /\ ppc' = "ow_clear"
    /\ UNCHANGED <<full, val, alive, parg, pret, pn, cvars, gvars>>

\* let _guard = writing.lock(): one try_lock of the busy-wait loop
OwLock ==
    /\ ppc = "ow_lock"
    /\ try_lock("prod")
    /\ ppc' = IF locked THEN "ow_lock" ELSE "ow_clear"
    /\ UNCHANGED <<full, val, alive, parg, pret, pn, cvars, gvars>>

\* full.store(false, Release)
OwClear ==
    /\ ppc = "ow_clear"
    /\ full' = FALSE
    /\ owOld' = IF full THEN val ELSE NoObj
    /\ ppc' = "ow_w1"
    /\ UNCHANGED <<locked, val, guards, alive, parg, pret, pn, cvars,
                   delivered, dropped, accepted, last, cexp>>

\* ptr::write, first word
OwW1 ==
    /\ ppc = "ow_w1"
    /\ val' = <<parg, val[2]>>
    /\ ppc' = "ow_w2"
    /\ UNCHANGED <<full, locked, guards, alive, parg, pret, pn, cvars, gvars>>

\* ptr::write, second word
OwW2 ==
    /\ ppc = "ow_w2"
    /\ val' = <<val[1], parg>>
    /\ ppc' = "ow_store"
    /\ UNCHANGED <<full, locked, guards, alive, parg, pret, pn, cvars, gvars>>

\* enqueue_overwrite leaving the flag down after the write
OwStore_Forget ==
    /\ ppc = "ow_store"
    /\ full' = full
    /\ ppc' = "ow_unlock"
    /\ UNCHANGED <<locked, val, guards, alive, parg, pret, pn, cvars, gvars>>

\* full.store(true, Release)
OwStore ==
    /\ ppc = "ow_store"
    /\ full' = TRUE
    /\ ppc' = "ow_unlock"
    /\ UNCHANGED <<locked, val, guards, alive, parg, pret, pn, cvars, gvars>>

\* enqueue_overwrite returning with its guard forgotten, the lock still set
OwUnlock_KeepLock ==
    /\ ppc = "ow_unlock"
    /\ GuardDrop_Leak("prod")
    /\ ppc' = "idle"
    /\ pret' = Ret("enqueue_overwrite", Unit)
    /\ accepted' = accepted \cup {parg}
    /\ last' = [last EXCEPT !.done = DoneAt("enqueue_overwrite")]
    /\ UNCHANGED <<full, val, alive, parg, pn, cvars,
                   delivered, dropped, owOld, cexp>>

\* end of scope: _guard dropped, the call returns ()
OwUnlock ==
    /\ ppc = "ow_unlock"
    /\ GuardDrop("prod")
    /\ ppc' = "idle"
    /\ pret' = Ret("enqueue_overwrite", Unit)
    /\ accepted' = accepted \cup {parg}
    /\ last' = [last EXCEPT !.done = DoneAt("enqueue_overwrite")]
    /\ UNCHANGED <<full, val, alive, parg, pn, cvars,
                   delivered, dropped, owOld, cexp>>

\* ---- Producer::is_empty ----
PIsEmpty ==
    /\ alive /\ ppc = "idle" /\ pn < MaxProd
    /\ pret' = Ret("is_empty", Bool(~full))
    /\ pn' = pn + 1
    /\ last' = [last EXCEPT !.ie = IsEmptyAt(~full, cpc)]
    /\ UNCHANGED <<ppc, parg, qvars, cvars,
                   delivered, dropped, accepted, owOld, cexp>>

\* ---- Consumer::dequeue ----
CCallDequeue ==
    /\ alive /\ cpc = "idle" /\ cn < MaxCons
    /\ cpc' = "deq_load"
    /\ cn' = cn + 1
    /\ cexp' = last
    /\ last' = [last EXCEPT !.done = NoDone, !.peek = NoObj, !.ie = "none"]
    /\ UNCHANGED <<cbuf, cret, qvars, pvars, delivered, dropped, accepted, owOld>>

\* dequeue with the test of the flag inverted
DeqLoad_Inverted ==
    /\ cpc = "deq_load"
    /\ IF ~full
       THEN /\ cpc' = "deq_lock"
            /\ UNCHANGED <<cret, last>>
       ELSE /\ cpc' = "idle"
            /\ cret' = Ret("dequeue", None)
            /\ last' = [last EXCEPT !.empty = ~PWriteActive]
    /\ UNCHANGED <<cbuf, cn, qvars, pvars, delivered, dropped, accepted, owOld, cexp>>

\* dequeue taking the locked branch without looking at the flag
DeqLoad_NoCheck ==
    /\ cpc = "deq_load"
    /\ cpc' = "deq_lock"
    /\ UNCHANGED <<cret, last>>
    /\ UNCHANGED <<cbuf, cn, qvars, pvars, delivered, dropped, accepted, owOld, cexp>>

\* if full.load(Acquire) { .. } else { None }
DeqLoad ==
    /\ cpc = "deq_load"
    /\ IF full
       THEN /\ cpc' = "deq_lock"
            /\ UNCHANGED <<cret, last>>
       ELSE /\ cpc' = "idle"
            /\ cret' = Ret("dequeue", None)
            /\ last' = [last EXCEPT !.empty = ~PWriteActive]
    /\ UNCHANGED <<cbuf, cn, qvars, pvars, delivered, dropped, accepted, owOld, cexp>>

\* dequeue going ahead whether or not the lock was free
DeqLock_NoWait ==
    /\ cpc = "deq_lock"
    /\ locked' = TRUE
    /\ guards' = guards \cup {"cons"}
    /\ cpc' = "deq_r1"
    /\ UNCHANGED <<full, val, alive, cbuf, cret, cn, pvars, gvars>>

\* let _guard = writing.lock(): one try_lock of the busy-wait loop
DeqLock ==
    /\ cpc = "deq_lock"
    /\ try_lock("cons")
    /\ cpc' = IF locked THEN "deq_lock" ELSE "deq_r1"
    /\ UNCHANGED <<full, val, alive, cbuf, cret, cn, pvars, gvars>>

\* ptr::read(val.get().cast()), first word
DeqR1 ==
    /\ cpc = "deq_r1"
    /\ cbuf' = <<val[1], Uninit>>
    /\ cpc' = "deq_r2"
    /\ UNCHANGED <<cret, cn, qvars, pvars, gvars>>

\* ptr::read, second word
DeqR2 ==
    /\ cpc = "deq_r2"
    /\ cbuf' = <<cbuf[1], val[2]>>
    /\ cpc' = "deq_clear"
    /\ UNCHANGED <<cret, cn, qvars, pvars, gvars>>

\* dequeue leaving the flag raised after moving the value out
DeqClear_Skip ==
    /\ cpc = "deq_clear"
    /\ full' = full
    /\ cpc' = "deq_unlock"
    /\ UNCHANGED <<locked, val, guards, alive, cbuf, cret, cn, pvars, gvars>>

\* full.store(false, Release)
DeqClear ==
    /\ cpc = "deq_clear"
    /\ full' = FALSE
    /\ cpc' = "deq_unlock"
    /\ UNCHANGED <<locked, val, guards, alive, cbuf, cret, cn, pvars, gvars>>

\* end of scope: _guard dropped, the call returns r
DeqUnlock ==
    /\ cpc = "deq_unlock"
    /\ GuardDrop("cons")
    /\ cpc' = "idle"
    /\ cret' = Ret("dequeue", Some(cbuf))
    /\ delivered' = Append(delivered, cbuf)
    /\ UNCHANGED <<full, val, alive, cbuf, cn, pvars,
                   dropped, accepted, owOld, last, cexp>>

\* ---- Consumer::peek ----
CCallPeek ==
    /\ alive /\ cpc = "idle" /\ cn < MaxCons
    /\ cpc' = "peek_load"
    /\ cn' = cn + 1
    /\ cexp' = last
    /\ UNCHANGED <<cbuf, cret, qvars, pvars, delivered, dropped, accepted, owOld, last>>

\* if full.load(Acquire) { .. } else { None }
PeekLoad ==
    /\ cpc = "peek_load"
    /\ IF full
       THEN /\ cpc' = "peek_lock"
            /\ UNCHANGED <<cret, last>>
       ELSE /\ cpc' = "idle"
            /\ cret' = Ret("peek", None)
            /\ last' = [last EXCEPT !.empty = ~PWriteActive]
    /\ UNCHANGED <<cbuf, cn, qvars, pvars, delivered, dropped, accepted, owOld, cexp>>

\* peek going ahead whether or not the lock was free
PeekLock_NoWait ==
    /\ cpc = "peek_lock"
    /\ locked' = TRUE
    /\ guards' = guards \cup {"cons"}
    /\ cpc' = "peek_r1"
    /\ UNCHANGED <<full, val, alive, cbuf, cret, cn, pvars, gvars>>

\* let _guard = writing.lock(): one try_lock of the busy-wait loop
PeekLock ==
    /\ cpc = "peek_lock"
    /\ try_lock("cons")
    /\ cpc' = IF locked THEN "peek_lock" ELSE "peek_r1"
    /\ UNCHANGED <<full, val, alive, cbuf, cret, cn, pvars, gvars>>

\* ptr::read, first word
PeekR1 ==
    /\ cpc = "peek_r1"
    /\ cbuf' = <<val[1], Uninit>>
    /\ cpc' = "peek_r2"
    /\ UNCHANGED <<cret, cn, qvars, pvars, gvars>>

\* ptr::read, second word
PeekR2 ==
    /\ cpc = "peek_r2"
    /\ cbuf' = <<cbuf[1], val[2]>>
    /\ cpc' = "peek_unlock"
    /\ UNCHANGED <<cret, cn, qvars, pvars, gvars>>

\* peek returning with its guard forgotten, the lock still set
PeekUnlock_KeepLock ==
    /\ cpc = "peek_unlock"
    /\ GuardDrop_Leak("cons")
    /\ cpc' = "idle"
    /\ cret' = Ret("peek", Some(cbuf))
    /\ last' = [last EXCEPT !.peek = IF PWriteActive THEN NoObj ELSE cbuf]
    /\ UNCHANGED <<full, val, alive, cbuf, cn, pvars,
                   delivered, dropped, accepted, owOld, cexp>>

\* peek clearing the flag as dequeue does
PeekUnlock_Clears ==
    /\ cpc = "peek_unlock"
    /\ GuardDrop("cons")
    /\ full' = FALSE
    /\ cpc' = "idle"
    /\ cret' = Ret("peek", Some(cbuf))
    /\ last' = [last EXCEPT !.peek = IF PWriteActive THEN NoObj ELSE cbuf]
    /\ UNCHANGED <<val, alive, cbuf, cn, pvars,
                   delivered, dropped, accepted, owOld, cexp>>

\* end of scope: _guard dropped, the call returns the copy
PeekUnlock ==
    /\ cpc = "peek_unlock"
    /\ GuardDrop("cons")
    /\ cpc' = "idle"
    /\ cret' = Ret("peek", Some(cbuf))
    /\ last' = [last EXCEPT !.peek = IF PWriteActive THEN NoObj ELSE cbuf]
    /\ UNCHANGED <<full, val, alive, cbuf, cn, pvars,
                   delivered, dropped, accepted, owOld, cexp>>

\* ---- Consumer::is_empty ----
\* is_empty returning the flag as it is
CIsEmpty_NotInverted ==
    /\ alive /\ cpc = "idle" /\ cn < MaxCons
    /\ cret' = Ret("is_empty", Bool(full))
    /\ cn' = cn + 1
    /\ last' = [last EXCEPT !.ie = IsEmptyAt(full, ppc)]
    /\ UNCHANGED <<cpc, cbuf, qvars, pvars,
                   delivered, dropped, accepted, owOld, cexp>>

\* !full.load(Relaxed)
CIsEmpty ==
    /\ alive /\ cpc = "idle" /\ cn < MaxCons
    /\ cret' = Ret("is_empty", Bool(~full))
    /\ cn' = cn + 1
    /\ last' = [last EXCEPT !.ie = IsEmptyAt(~full, ppc)]
    /\ UNCHANGED <<cpc, cbuf, qvars, pvars,
                   delivered, dropped, accepted, owOld, cexp>>

\* drop_in_place run without looking at the flag
DropQueue_Always ==
    /\ alive /\ ppc = "idle" /\ cpc = "idle"
    /\ alive' = FALSE
    /\ dropped' = Append(dropped, val)
    /\ UNCHANGED <<full, locked, val, guards, pvars, cvars,
                   delivered, accepted, owOld, last, cexp>>

\* ---- Drop for SingleSlotQueue ----
\* The queue can be dropped only when the borrows of both handles have ended.
DropQueue ==
    /\ alive /\ ppc = "idle" /\ cpc = "idle"
    /\ alive' = FALSE
    /\ dropped' = IF full THEN Append(dropped, val) ELSE dropped
    /\ UNCHANGED <<full, locked, val, guards, pvars, cvars,
                   delivered, accepted, owOld, last, cexp>>

Producer ==
    \/ \E v \in Values : PCallEnqueue(v)
    \/ EnqLoad \/ EnqW1 \/ EnqW2 \/ EnqStore
    \/ \E v \in Values : PCallOverwrite(v)
    \/ OwLock \/ OwClear \/ OwW1 \/ OwW2 \/ OwStore \/ OwUnlock
    \/ PIsEmpty

Consumer ==
    \/ CCallDequeue \/ DeqLoad \/ DeqLock \/ DeqR1 \/ DeqR2 \/ DeqClear \/ DeqUnlock
    \/ CCallPeek \/ PeekLoad \/ PeekLock \/ PeekR1 \/ PeekR2 \/ PeekUnlock
    \/ CIsEmpty

Next == Producer \/ Consumer \/ DropQueue

Spec == Init /\ [][Next]_vars

\* ======================= properties =======================
\* ptr::write has stored the first word and not yet the second
ProducerWriting == ppc \in {"enq_w2", "ow_w2"}
\* ptr::read has loaded the first word and not yet the second
ConsumerReading == cpc \in {"deq_r2", "peek_r2"}
\* how many times o occurs in the sequence s
Count(o, s) == Cardinality({i \in 1..Len(s) : s[i] = o})

\* C1: the producer never writes the slot while the consumer reads it, and
\* every value a dequeue or peek returns was completely written by one write
\* (no torn read).
C1_NoTornRead ==
    /\ ~(ProducerWriting /\ ConsumerReading)
    /\ cret.res[1] = "Some" => IsValue(cret.res[2])

\* C1 witness: the consumer is in the middle of its read while the producer
\* waits in enqueue_overwrite for the lock.
C1_Witness ==
    /\ cpc = "deq_r2" /\ ppc = "ow_lock" /\ locked /\ full

\* C2: no value is returned by two dequeues, and no value returned by a
\* dequeue is dropped by the destruction of the queue.
C2_NoDoubleDelivery ==
    /\ \A i \in 1..Len(delivered) : Count(delivered[i], delivered) = 1
    /\ \A i \in 1..Len(dropped) : Count(dropped[i], delivered) = 0
    /\ Len(dropped) <= 1

\* C2 witness: the queue was destroyed holding a value after two dequeues
\* had returned values.
C2_Witness ==
    /\ ~alive /\ Len(delivered) = 2 /\ Len(dropped) = 1

\* C8: destruction drops the value in the slot exactly once if full is true
\* at that time, and drops nothing if full is false.
C8_DropIffFull ==
    ~alive => IF full THEN dropped = <<val>> /\ IsValue(val)
                      ELSE dropped = <<>>

\* C8 witness: a queue destroyed while full, after a dequeue had emptied it
\* once.
C8_Witness ==
    /\ ~alive /\ full /\ Len(delivered) = 1 /\ dropped = <<val>>

\* C9 (as claimed): once the queue is destroyed, every value it accepted has
\* been released exactly once, by a dequeue or by the drop.
C9_NoLeak ==
    ~alive => \A t \in accepted :
                 Count(Obj(t), delivered) + Count(Obj(t), dropped) = 1

\* the step returns from a dequeue / from a peek
DequeueReturns == cpc \in DeqPcs /\ cpc' = "idle"
PeekReturns == cpc \in PeekPcs /\ cpc' = "idle"

\* C3: the first dequeue called after an enqueue returned None (no dequeue
\* being in progress at that time), with no producer write since, returns Some of the enqueued value and leaves the
\* queue empty.
C3_EnqueueThenDequeue ==
    [][(DequeueReturns /\ cexp.done[1] = "enqueue")
        => /\ cret' = Ret("dequeue", Some(Obj(cexp.done[2])))
           /\ full' = FALSE]_vars

\* C3 witness: such a dequeue has returned the enqueued value.
C3_Witness ==
    /\ cpc = "idle" /\ cexp.done[1] = "enqueue"
    /\ cret = Ret("dequeue", Some(Obj(cexp.done[2])))
    /\ ~full

\* C4: an enqueue that finds the slot occupied returns Some of its own
\* argument and changes neither the flag, the slot nor the lock.
C4_RejectedEnqueue ==
    [][/\ (ppc = "idle" /\ ppc' = "enq_load")
            => UNCHANGED <<full, val, locked, guards>>
       /\ (ppc = "enq_load" /\ ppc' # ppc /\ full)
            => /\ ppc' = "idle"
               /\ pret' = Ret("enqueue", Some(Obj(parg)))
               /\ full' /\ val' = val
               /\ UNCHANGED <<locked, guards>>]_vars

\* C4 witness: a rejected enqueue has returned its argument, the slot still
\* holding the value of the first call.
C4_Witness ==
    /\ ppc = "idle" /\ pret = Ret("enqueue", Some(Obj(parg)))
    /\ full /\ val[1][1] = 1 /\ IsValue(val) /\ parg[1] = 2

\* C5: enqueue_overwrite returns () with the queue full of its argument,
\* whatever the occupancy before, and the first dequeue called after it
\* returned (no dequeue being in progress at that time), with no producer
\* write since, returns Some of that argument.
C5_OverwriteThenDequeue ==
    [][/\ (ppc \in OwPcs /\ ppc' = "idle")
            => /\ pret' = Ret("enqueue_overwrite", Unit)
               /\ full' /\ val' = Obj(parg)
       /\ (DequeueReturns /\ cexp.done[1] = "enqueue_overwrite")
            => cret' = Ret("dequeue", Some(Obj(cexp.done[2])))]_vars

\* C5 witness: an overwrite of an occupied queue, then a dequeue returning
\* the new value.
C5_Witness ==
    /\ cpc = "idle" /\ cexp.done[1] = "enqueue_overwrite"
    /\ cret = Ret("dequeue", Some(Obj(cexp.done[2])))
    /\ owOld # NoObj /\ owOld # Obj(cexp.done[2])

\* C6: after a peek returned Some(v), with no producer write since, the next
\* peek and the next dequeue return Some(v); no step of peek changes the flag
\* or the slot; a peek that took the lock has released it when it returns.
C6_PeekNonDestructive ==
    [][/\ ((DequeueReturns \/ PeekReturns) /\ cexp.peek # NoObj)
            => cret'.res = Some(cexp.peek)
       /\ ((cpc \in PeekPcs /\ cpc' # cpc) \/ (cpc = "idle" /\ cpc' = "peek_load"))
            => UNCHANGED <<full, val>>
       /\ (cpc = "peek_unlock" /\ cpc' = "idle")
            => ~locked' /\ guards' = {}]_vars

\* C6 witness: the third consumer call is a dequeue that returned the value
\* the peek before it had returned.
C6_Witness ==
    /\ cpc = "idle" /\ cn = 3 /\ cexp.peek # NoObj
    /\ cret = Ret("dequeue", Some(cexp.peek))
    /\ delivered = <<cexp.peek>>

\* C7: a dequeue or peek that finds full false returns None and changes
\* neither the flag, the slot nor the lock; after one returned None, with no
\* producer write since, the next one returns None too.
C7_EmptyReads ==
    [][/\ (cpc \in {"deq_load", "peek_load"} /\ cpc' # cpc /\ ~full)
            => /\ cpc' = "idle" /\ cret'.res = None
               /\ UNCHANGED <<full, val, locked, guards>>
       /\ ((DequeueReturns \/ PeekReturns) /\ cexp.empty)
            => cret'.res = None]_vars

\* C7 witness: a dequeue returned None right after another read had returned
\* None.
C7_Witness ==
    /\ cpc = "idle" /\ cexp.empty /\ cret = Ret("dequeue", None) /\ cn >= 2

\* enqueue_overwrite is between its lock() and the drop of its guard
OwCritical == {"ow_clear", "ow_w1", "ow_w2", "ow_store", "ow_unlock"}
\* enqueue_overwrite has stored full = false and not yet full = true
OwTransient == {"ow_w1", "ow_w2", "ow_store"}
\* the locked branch of dequeue and peek
LockedBranch == (DeqPcs \cup PeekPcs) \ {"deq_load", "peek_load"}

\* C10 (as claimed): while enqueue_overwrite replaces the value of an
\* occupied queue, no dequeue or peek of the consumer finds the queue empty
\* and no is_empty of the consumer returns true.
C10_NeverSeesTransient ==
    [][(ppc \in OwTransient /\ owOld # NoObj)
        => /\ (cpc \in {"deq_load", "peek_load"} /\ cpc' # cpc) => cpc' # "idle"
           /\ (cpc = "idle" /\ cpc' = "idle" /\ cn' = cn + 1)
                 => cret'.res = Bool(FALSE)]_vars

\* C10 (amended): the overwrite is atomic for a consumer inside its locked
\* branch: the consumer never holds the guard while enqueue_overwrite is
\* between its lock() and its unlock, and a dequeue or peek that observed
\* full = true returns Some of a completely written value.  (The unlocked
\* loads of full can see the transient full = false.)
C10_AtomicUnderLock ==
    [][/\ "cons" \in guards' => ppc' \notin OwCritical
       /\ (cpc \in LockedBranch /\ cpc' = "idle")
            => cret'.res[1] = "Some" /\ IsValue(cret'.res[2])]_vars

\* C10 witness: a dequeue that observed full = true waits for the lock while
\* an overwrite of an occupied queue is half way through its write.
C10_Witness ==
    /\ cpc = "deq_lock" /\ ppc = "ow_w2" /\ owOld # NoObj /\ ~full

\* the consumer is at the slot read of dequeue or peek
ReadPcs == {"deq_r1", "deq_r2", "peek_r1", "peek_r2"}
\* the consumer is past its lock() in the locked branch
CHeldPcs == LockedBranch \ {"deq_lock", "peek_lock"}
\* o has been moved out of the slot by a dequeue
Moved(o) ==
    \/ Count(o, delivered) > 0
    \/ cpc \in {"deq_clear", "deq_unlock"} /\ cbuf = o

\* C15: whenever the consumer is at the slot read of dequeue or peek it
\* holds the writing lock, full is true and the slot holds a completely
\* written value that has not been moved out.
C15_ReadUnderLock ==
    cpc \in ReadPcs
        => /\ locked /\ guards = {"cons"}
           /\ full
           /\ IsValue(val) /\ ~Moved(val)

\* C15 witness: the consumer reads the value of an enqueue_overwrite that
\* replaced the first value and returned after this dequeue was called.
C15_Witness ==
    /\ cpc = "deq_r1" /\ cn = 1 /\ cexp.done = NoDone
    /\ ppc = "idle" /\ pn = 2 /\ pret.op = "enqueue_overwrite"
    /\ val = Obj(parg) /\ owOld # NoObj

\* C16: at most one guard exists and only on a locked lock; a try_lock on a
\* held lock gives no guard and leaves the lock with its holder; locked goes
\* back to false only by the drop of the one guard.
C16_MutualExclusion ==
    [][/\ Cardinality(guards') <= 1
       /\ locked' <=> guards' # {}
       /\ (ppc = "ow_lock" /\ locked)
            => ppc' = "ow_lock" /\ "prod" \notin guards' /\ guards' \subseteq guards
       /\ (cpc \in {"deq_lock", "peek_lock"} /\ locked)
            => cpc' = cpc /\ "cons" \notin guards' /\ guards' \subseteq guards
       /\ (locked /\ ~locked')
            => Cardinality(guards) = 1 /\ guards' = {}]_vars

\* C16 witness: the producer is in lock() while the consumer owns the guard.
C16_Witness ==
    /\ ppc = "ow_lock" /\ locked /\ guards = {"cons"} /\ cpc = "peek_r2"

\* C17: the producer owns the guard exactly between the lock() and the
\* return of enqueue_overwrite, the consumer exactly in the locked branch of
\* dequeue or peek past its lock(); the lock is free otherwise; a side finds
\* the lock taken only while the other side is in such a section.
C17_LockOnlyInSections ==
    /\ "prod" \in guards <=> ppc \in OwCritical
    /\ "cons" \in guards <=> cpc \in CHeldPcs
    /\ locked <=> (ppc \in OwCritical \/ cpc \in CHeldPcs)
    /\ (cpc \in {"deq_lock", "peek_lock"} /\ locked) => ppc \in OwCritical
    /\ (ppc = "ow_lock" /\ locked) => cpc \in CHeldPcs

\* C17 witness: a peek finds the lock taken by an enqueue_overwrite.
C17_Witness ==
    /\ cpc = "peek_lock" /\ locked /\ ppc = "ow_store"

\* C18: when full is true and the consumer is not between the slot read and
\* the flag clear of a dequeue, the slot holds a complete value that has not
\* been moved out; when both sides are idle, full is true exactly when the
\* slot holds such a value.
C18_FlagMatchesSlot ==
    /\ (full /\ cpc # "deq_clear") => IsValue(val) /\ ~Moved(val)
    /\ (ppc = "idle" /\ cpc = "idle") => (full <=> IsValue(val) /\ ~Moved(val))

\* C18 witness: both sides idle, the queue full again after a dequeue had
\* emptied it.
C18_Witness ==
    /\ ppc = "idle" /\ cpc = "idle" /\ alive /\ full
    /\ Len(delivered) = 1 /\ IsValue(val) /\ val # delivered[1]

\* C19: the values returned by the dequeues are values the producer wrote,
\* in the order it wrote them (the ids count the producer's calls).
C19_DeliveredInOrder ==
    /\ \A i \in 1..Len(delivered) :
          IsValue(delivered[i]) /\ delivered[i][1] \in accepted
    /\ \A i, j \in 1..Len(delivered) :
          i < j => delivered[i][1][1] < delivered[j][1][1]

\* C19 witness: two dequeues returned the first and the third value, the
\* second having been overwritten.
C19_Witness ==
    /\ Len(delivered) = 2
    /\ delivered[1][1][1] = 1 /\ delivered[2][1][1] = 3

EnqPcs == {"enq_load", "enq_w1", "enq_w2", "enq_store"}
\* steps an enqueue still has to take from pc
EnqStepsLeft(pc) ==
    CASE pc = "enq_load" -> 4
      [] pc = "enq_w1" -> 3
      [] pc = "enq_w2" -> 2
      [] pc = "enq_store" -> 1
      [] OTHER -> 0
\* a step of the producer / of the consumer that moves it on
ProducerAdvances == Producer /\ ppc' # ppc
ConsumerAdvances == Consumer /\ cpc' # cpc

\* C13: every step of an enqueue can be taken whatever the state of the lock,
\* brings the call nearer to its return and leaves the lock alone; a dequeue
\* or peek that finds full false can take its load whatever the state of the
\* lock and returns with it, leaving the lock alone.
C13_FastPathsLockFree ==
    [][/\ ppc \in EnqPcs => ENABLED ProducerAdvances
       /\ (ppc = "idle" /\ ppc' = "enq_load") => UNCHANGED <<locked, guards>>
       /\ (ppc \in EnqPcs /\ ppc' # ppc)
            => /\ EnqStepsLeft(ppc') < EnqStepsLeft(ppc)
               /\ UNCHANGED <<locked, guards>>
       /\ (cpc \in {"deq_load", "peek_load"} /\ ~full) => ENABLED ConsumerAdvances
       /\ (cpc \in {"deq_load", "peek_load"} /\ ~full /\ cpc' # cpc)
            => cpc' = "idle" /\ UNCHANGED <<locked, guards>>]_vars

\* C13 witness: an accepted enqueue is writing the slot while the consumer
\* still owns the guard of the dequeue that emptied it.
C13_Witness ==
    /\ ppc = "enq_w2" /\ locked /\ guards = {"cons"} /\ cpc = "deq_unlock"

\* the step is an is_empty of the consumer / of the producer
CIsEmptyStep == cpc = "idle" /\ cpc' = "idle" /\ cn' = cn + 1
PIsEmptyStep == ppc = "idle" /\ ppc' = "idle" /\ pn' = pn + 1

\* C14: is_empty of either handle returns the negation of full as it is at
\* that step and changes neither the flag, the slot nor the lock; when it
\* ran with no call in progress on the other side, the next dequeue, with no
\* producer write since, returns None exactly when it returned true.
C14_IsEmpty ==
    [][/\ CIsEmptyStep
            => /\ cret' = Ret("is_empty", Bool(~full))
               /\ UNCHANGED <<full, val, locked, guards>>
       /\ PIsEmptyStep
            => /\ pret' = Ret("is_empty", Bool(~full))
               /\ UNCHANGED <<full, val, locked, guards>>
       /\ (DequeueReturns /\ cexp.ie = "true") => cret'.res = None
       /\ (DequeueReturns /\ cexp.ie = "false") => cret'.res[1] = "Some"]_vars

\* C14 witness: is_empty had returned false and the dequeue after it has
\* returned a value.
C14_Witness ==
    /\ cpc = "idle" /\ cexp.ie = "false"
    /\ cret.op = "dequeue" /\ cret.res[1] = "Some"

\* ---- two threads that keep running (thread::scope in soundness.rs) ----
\* Each thread goes on executing its code: a step of it that stays possible
\* is taken.  A try_lock that fails changes nothing, so a thread in lock()
\* moves on only by a try_lock that finds the lock free.  These runs make
\* fewer calls, with fewer payloads, than Spec.
ProducerFair == Producer /\ pn' <= FairProd /\ parg'[2] <= FairVal
ConsumerFair == Consumer /\ cn' <= FairCons
NextFair == ProducerFair \/ ConsumerFair \/ DropQueue
SpecFair == Init /\ [][NextFair]_vars /\ WF_vars(ProducerFair) /\ WF_vars(ConsumerFair)

\* both sides have returned from their last call
Finished ==
    /\ ppc = "idle" /\ cpc = "idle"
    /\ ~alive \/ (pn = FairProd /\ cn = FairCons)

\* C11: with FairProd producer calls and FairCons consumer calls, every call
\* returns and both sides finish.
C11_AllCallsReturn ==
    /\ (ppc # "idle") ~> (ppc = "idle")
    /\ (cpc # "idle") ~> (cpc = "idle")
    /\ <>Finished

\* C11 witness: all calls made and returned, the last dequeue having waited
\* for the lock of the last enqueue_overwrite or the reverse.
C11_Witness ==
    /\ alive /\ Finished /\ pn = FairProd /\ cn = FairCons
    /\ Len(delivered) >= 1 /\ pret.op = "enqueue_overwrite"

\* ---- two threads that call for ever ----
\* A side that has made the LoopCalls calls of a round starts another round.
\* The history is not kept from round to round (ids are used again), and
\* the producer gives the one payload 1: the payload plays no part in lock().
PAgain ==
    /\ alive /\ ppc = "idle" /\ pn = LoopCalls
    /\ pn' = 0
    /\ accepted' = {} /\ owOld' = NoObj
    /\ last' = ClearExp /\ cexp' = ClearExp
    /\ UNCHANGED <<ppc, parg, pret, qvars, cvars, delivered, dropped>>

CAgain ==
    /\ alive /\ cpc = "idle" /\ cn = LoopCalls
    /\ cn' = 0
    /\ delivered' = <<>>
    /\ last' = ClearExp /\ cexp' = ClearExp
    /\ UNCHANGED <<cpc, cbuf, cret, qvars, pvars, dropped, accepted, owOld>>

ProducerLoop ==
    \/ Producer /\ pn' <= LoopCalls /\ parg'[2] <= 1
    \/ PAgain
ConsumerLoop ==
    \/ Consumer /\ cn' <= LoopCalls
    \/ CAgain
NextLoop == ProducerLoop \/ ConsumerLoop \/ DropQueue
SpecLoop == Init /\ [][NextLoop]_vars /\ WF_vars(ProducerLoop) /\ WF_vars(ConsumerLoop)

\* C12 (as claimed): a side waiting in lock() acquires the lock, also when
\* the other side goes on calling for ever.
C12_WaiterAcquires ==
    /\ (ppc = "ow_lock") ~> (ppc = "ow_clear")
    /\ (cpc = "deq_lock") ~> (cpc = "deq_r1")
    /\ (cpc = "peek_lock") ~> (cpc = "peek_r1")

\* C12 (amended): the holder gives the lock back after its one critical
\* section, so a waiter finds the lock free again however long the other
\* side goes on calling.  (That the waiter's try_lock is the one that takes
\* the free lock is not guaranteed.)
C12_HolderReleases ==
    /\ locked ~> ~locked
    /\ (ppc = "ow_lock" /\ locked) ~> (ppc = "ow_lock" /\ ~locked)
    /\ (cpc \in {"deq_lock", "peek_lock"} /\ locked)
          ~> (cpc \in {"deq_lock", "peek_lock"} /\ ~locked)

\* C12 witness: the producer waits in lock() while the consumer, in a peek,
\* owns the guard.
C12_Witness ==
    /\ ppc = "ow_lock" /\ locked /\ guards = {"cons"}
    /\ cpc = "peek_r1" /\ cn = LoopCalls /\ pn = LoopCalls

====
